---- MODULE Spec2Model ----
(***************************************************************************)
(* Model of the /prtimes_posts handler of src/main.go (the version of      *)
(* handlePRTimesPosts at lines 210-295): one request, the page-1 discovery *)
(* fetch, the fan-out of one goroutine per page, the per-listing like      *)
(* count lookup, the mutex-guarded append, the wait barrier, the sort, the *)
(* truncation and the response.                                            *)
(*                                                                         *)
(* Strings the code inspects (keyword, limit, release_url) are sequences   *)
(* of one-character strings.  Fields the handler copies verbatim           *)
(* (company_name, thumbnail_url) are left out; Title is kept and tells the *)
(* listings apart.  PublishedDate is left out of the items as well: it is  *)
(* the value of parseReleaseDate, which has no error path and no effect on *)
(* what the handler does next.  parseReleaseDate (lines 297-328) and       *)
(* extractReleaseID (lines 201-208) are also modelled on their own, each   *)
(* called once on an argument drawn from a bounded set of strings          *)
(* (SpecDate, SpecExtract).                                                *)
(***************************************************************************)
EXTENDS Integers, Sequences, FiniteSets, TLC

\* ---------------------------------------------------------------- bounds
MaxPages == 2
MaxListings == 1
MaxLike == 1
MaxURLPieces == 6
MaxDatePieces == 3

Pages == 1..MaxPages

\* ------------------------------------------------------------ characters
Digits == {"0", "1", "2", "3", "4", "5", "6", "7", "8", "9"}

DigitVal(c) ==
    CASE c = "0" -> 0 [] c = "1" -> 1 [] c = "2" -> 2 [] c = "3" -> 3
      [] c = "4" -> 4 [] c = "5" -> 5 [] c = "6" -> 6 [] c = "7" -> 7
      [] c = "8" -> 8 [] c = "9" -> 9

\* ------------------------------------------------------- strconv.Atoi
\* Atoi(s) = [err, val]: an optional sign, then one or more decimal digits,
\* and a value within the range of int (64 bits); val is 0 with an error,
\* where the code never reads it.
RECURSIVE DecValue(_)
DecValue(ds) ==
    IF ds = <<>> THEN 0
    ELSE 10 * DecValue(SubSeq(ds, 1, Len(ds) - 1)) + DigitVal(ds[Len(ds)])

\* the decimal digits of the largest int and of the smallest int's magnitude
MaxIntDigits ==
    <<"9", "2", "2", "3", "3", "7", "2", "0", "3", "6", "8", "5", "4", "7", "7", "5",
      "8", "0", "7">>

MinIntDigits ==
    <<"9", "2", "2", "3", "3", "7", "2", "0", "3", "6", "8", "5", "4", "7", "7", "5",
      "8", "0", "8">>

RECURSIVE StripZeros(_)
StripZeros(ds) == IF ds # <<>> /\ ds[1] = "0" THEN StripZeros(Tail(ds)) ELSE ds

\* a > b for strings of digits without leading zeros
RECURSIVE DigitsGreater(_, _)
DigitsGreater(a, b) ==
    IF Len(a) # Len(b) THEN Len(a) > Len(b)
    ELSE IF a = <<>> THEN FALSE
    ELSE IF a[1] # b[1] THEN DigitVal(a[1]) > DigitVal(b[1])
    ELSE DigitsGreater(Tail(a), Tail(b))

Atoi(s) ==
    LET signed == s # <<>> /\ s[1] \in {"+", "-"}
        ds     == IF signed THEN Tail(s) ELSE s
    IN  IF ds = <<>> \/ \E i \in 1..Len(ds) : ds[i] \notin Digits
        THEN [err |-> TRUE, val |-> 0]
        ELSE IF DigitsGreater(StripZeros(ds),
                              IF signed /\ s[1] = "-" THEN MinIntDigits
                              ELSE MaxIntDigits)
        THEN [err |-> TRUE, val |-> 0]
        ELSE [err |-> FALSE,
              val |-> IF signed /\ s[1] = "-" THEN 0 - DecValue(ds)
                      ELSE DecValue(ds)]

\* --------------------------------------------------- extractReleaseID
PathPrefix ==
    <<"/", "m", "a", "i", "n", "/", "h", "t", "m", "l", "/", "r", "d", "/", "p", "/">>

HtmlSuffix == <<".", "h", "t", "m", "l">>

HasAt(s, i, lit) ==
    /\ i + Len(lit) - 1 <= Len(s)
    /\ SubSeq(s, i, i + Len(lit) - 1) = lit

\* length of the longest run of digits of s that starts at position i
RECURSIVE DigitRun(_, _)
DigitRun(s, i) ==
    IF i <= Len(s) /\ s[i] \in Digits THEN 1 + DigitRun(s, i + 1) ELSE 0

\* the submatches of the pattern anchored at position i, <<>> when it does
\* not match there
MatchAt(s, i) ==
    IF ~HasAt(s, i, PathPrefix) THEN <<>>
    ELSE LET a  == i + Len(PathPrefix)
             n1 == DigitRun(s, a)
         IN  IF n1 = 0 \/ ~HasAt(s, a + n1, <<".">>) THEN <<>>
             ELSE LET b  == a + n1 + 1
                      n2 == DigitRun(s, b)
                  IN  IF n2 = 0 \/ ~HasAt(s, b + n2, HtmlSuffix) THEN <<>>
                      ELSE << SubSeq(s, i, b + n2 + Len(HtmlSuffix) - 1),
                              SubSeq(s, a, a + n1 - 1),
                              SubSeq(s, b, b + n2 - 1) >>

\* the match at the first position from i on at which the pattern matches
RECURSIVE FirstMatchFrom(_, _)
FirstMatchFrom(s, i) ==
    IF i > Len(s) THEN <<>>
    ELSE IF MatchAt(s, i) # <<>> THEN MatchAt(s, i)
    ELSE FirstMatchFrom(s, i + 1)

\* regexp.FindStringSubmatch: the leftmost match, <<>> (nil) when none
FindStringSubmatch(s) == FirstMatchFrom(s, 1)

\* lines 201-208 with the pattern anchored at the start of the string
extractReleaseIDAnchored(releaseURL) ==
    LET matches == MatchAt(releaseURL, 1)
    IN  IF Len(matches) = 3 THEN matches[2] \o <<".">> \o matches[3]
        ELSE <<>>

extractReleaseID(releaseURL) ==
    LET matches == FindStringSubmatch(releaseURL)
    IN  IF Len(matches) = 3 THEN matches[2] \o <<".">> \o matches[3]
        ELSE <<>>

\* --------------------------------------------------- parseReleaseDate
\* The characters of the date strings that are not ASCII are written as one
\* element each: "nen" (year), "gatsu" (month), "nichi" (day), "ji" (hour),
\* "kan" (interval), "fun" (minute), "mae" (ago).

\* line 299: the literal part of reHours
HoursAgo == <<"ji", "kan", "mae">>

\* line 309: the literal part of reMinutes
MinutesAgo == <<"fun", "mae">>

\* the submatches of (\d+)marker anchored at position i, <<>> when it does
\* not match there; the run of digits is greedy and the marker starts with a
\* character that is no digit, so the whole run is the group
RelMatchAt(s, i, marker) ==
    LET n == DigitRun(s, i)
    IN  IF n = 0 \/ ~HasAt(s, i + n, marker) THEN <<>>
        ELSE << SubSeq(s, i, i + n + Len(marker) - 1), SubSeq(s, i, i + n - 1) >>

\* regexp.FindStringSubmatch for (\d+)marker: the leftmost match from i on
RECURSIVE FindRelFrom(_, _, _)
FindRelFrom(s, i, marker) ==
    IF i > Len(s) THEN <<>>
    ELSE IF RelMatchAt(s, i, marker) # <<>> THEN RelMatchAt(s, i, marker)
    ELSE FindRelFrom(s, i + 1, marker)

\* a time.Time to the minute, in a zone with a fixed offset
Time(y, mo, d, h, mi) == [year |-> y, month |-> mo, day |-> d, hour |-> h, minute |-> mi]

\* time.Hour and time.Minute, in minutes
Hour == 60
Minute == 1

isLeap(y) == y % 4 = 0 /\ (y % 100 # 0 \/ y % 400 = 0)

daysIn(mo, y) ==
    IF mo = 2 THEN (IF isLeap(y) THEN 29 ELSE 28)
    ELSE IF mo \in {4, 6, 9, 11} THEN 30 ELSE 31

\* the same time of day one day earlier
PrevDay(t) ==
    IF t.day > 1 THEN [t EXCEPT !.day = t.day - 1]
    ELSE IF t.month > 1
         THEN [t EXCEPT !.month = t.month - 1, !.day = daysIn(t.month - 1, t.year)]
         ELSE [t EXCEPT !.year = t.year - 1, !.month = 12, !.day = 31]

\* Time.Add for a duration d <= 0, in minutes
RECURSIVE Add(_, _)
Add(t, d) ==
    LET m == t.hour * 60 + t.minute + d
    IN  IF m >= 0 THEN [t EXCEPT !.hour = m \div 60, !.minute = m % 60]
        ELSE Add(PrevDay(t), d + 24 * 60)

DigitChar(n) ==
    CASE n = 0 -> "0" [] n = 1 -> "1" [] n = 2 -> "2" [] n = 3 -> "3"
      [] n = 4 -> "4" [] n = 5 -> "5" [] n = 6 -> "6" [] n = 7 -> "7"
      [] n = 8 -> "8" [] n = 9 -> "9"

\* the last w decimal digits of n, zero-padded
RECURSIVE Pad(_, _)
Pad(n, w) == IF w = 0 THEN <<>> ELSE Append(Pad(n \div 10, w - 1), DigitChar(n % 10))

\* Time.Format with the digits of month, day, hour and minute not padded
FormatUnpadded(t) ==
    LET num(n) == IF n < 10 THEN Pad(n, 1) ELSE Pad(n, 2)
    IN  Pad(t.year, 4) \o <<"nen">> \o num(t.month) \o <<"gatsu">> \o num(t.day)
            \o <<"nichi", " ">> \o num(t.hour) \o <<":">> \o num(t.minute)

\* Time.Format("2006<nen>01<gatsu>02<nichi> 15:04"), for years 0..9999
Format(t) ==
    Pad(t.year, 4) \o <<"nen">> \o Pad(t.month, 2) \o <<"gatsu">> \o Pad(t.day, 2)
        \o <<"nichi", " ">> \o Pad(t.hour, 2) \o <<":">> \o Pad(t.minute, 2)

\* time.getnum at position i: one or two digits, exactly two when fixed
getnum(s, i, fixed) ==
    IF ~(i <= Len(s) /\ s[i] \in Digits) THEN [err |-> TRUE, val |-> 0, next |-> i]
    ELSE IF ~(i + 1 <= Len(s) /\ s[i + 1] \in Digits)
         THEN IF fixed THEN [err |-> TRUE, val |-> 0, next |-> i]
              ELSE [err |-> FALSE, val |-> DigitVal(s[i]), next |-> i + 1]
         ELSE [err |-> FALSE, val |-> 10 * DigitVal(s[i]) + DigitVal(s[i + 1]),
               next |-> i + 2]

\* time.skip for a space of the layout at position i: the value must not go
\* on with another character, and all its spaces from there on are dropped
RECURSIVE cutspace(_, _)
cutspace(s, i) == IF i <= Len(s) /\ s[i] = " " THEN cutspace(s, i + 1) ELSE i

skipSpace(s, i) ==
    IF i <= Len(s) /\ s[i] # " " THEN [err |-> TRUE, next |-> i]
    ELSE [err |-> FALSE, next |-> cutspace(s, i)]

ParseError == [err |-> TRUE, t |-> Time(0, 0, 0, 0, 0)]

\* time.Parse("2006<nen>1<gatsu>2<nichi> 15<ji>04<fun>", value): a year of four
\* digits, month, day and hour of one or two digits, a minute of two, every
\* number in its range, the day within its month, and nothing after
Parse(value) ==
    IF ~(Len(value) >= 4 /\ \A k \in 1..4 : value[k] \in Digits) THEN ParseError
    ELSE IF ~HasAt(value, 5, <<"nen">>) THEN ParseError
    ELSE LET year == DecValue(SubSeq(value, 1, 4))
             mo   == getnum(value, 6, FALSE)
         IN  IF mo.err \/ mo.val <= 0 \/ 12 < mo.val THEN ParseError
             ELSE IF ~HasAt(value, mo.next, <<"gatsu">>) THEN ParseError
             ELSE LET d == getnum(value, mo.next + 1, FALSE)
                  IN  IF d.err \/ ~HasAt(value, d.next, <<"nichi">>) THEN ParseError
                      ELSE LET sp == skipSpace(value, d.next + 1)
                               h  == getnum(value, sp.next, FALSE)
                           IN  IF sp.err \/ h.err \/ 24 <= h.val THEN ParseError
                               ELSE IF ~HasAt(value, h.next, <<"ji">>) THEN ParseError
                               ELSE LET mi == getnum(value, h.next + 1, TRUE)
                                    IN  IF mi.err \/ 60 <= mi.val THEN ParseError
                                        ELSE IF ~HasAt(value, mi.next, <<"fun">>)
                                                \/ mi.next # Len(value) THEN ParseError
                                        ELSE IF d.val < 1 \/ d.val > daysIn(mo.val, year)
                                             THEN ParseError
                                        ELSE [err |-> FALSE,
                                              t   |-> Time(year, mo.val, d.val, h.val, mi.val)]

\* lines 299-327: the return statement parseReleaseDate leaves by
returnTaken(dateStr) ==
    LET hours   == FindRelFrom(dateStr, 1, HoursAgo)
        minutes == FindRelFrom(dateStr, 1, MinutesAgo)
    IN  IF Len(hours) = 2 /\ ~Atoi(hours[2]).err THEN "hours"
        ELSE IF Len(minutes) = 2 /\ ~Atoi(minutes[2]).err THEN "minutes"
        ELSE IF ~Parse(dateStr).err THEN "absolute"
        ELSE "unrecognized"

\* lines 297-328: the string returned for dateStr when time.Now() is clock
parseReleaseDate(dateStr, clock) ==
    LET taken == returnTaken(dateStr)
    IN  CASE taken = "hours" ->
               LET hoursAgo == Atoi(FindRelFrom(dateStr, 1, HoursAgo)[2]).val
               IN  Format(Add(clock, 0 - hoursAgo * Hour))
          [] taken = "minutes" ->
               LET minutesAgo == Atoi(FindRelFrom(dateStr, 1, MinutesAgo)[2]).val
               IN  Format(Add(clock, 0 - minutesAgo * Minute))
          [] taken = "absolute" -> Format(Parse(dateStr).t)
          [] taken = "unrecognized" -> Format(clock)

\* ------------------------------------------------------------- inputs
GoodURL == PathPrefix \o <<"1", ".", "2">> \o HtmlSuffix
NoIdURL == PathPrefix \o <<"1">> \o HtmlSuffix

URLSet == {GoodURL, NoIdURL}

Keywords == {<<>>, <<"k">>}

LimitStrs == {<<>>, <<"0">>, <<"1">>, <<"2">>, <<"-", "1">>, <<"x">>}

\* the concatenation of a sequence of strings
RECURSIVE Concat(_)
Concat(ss) == IF ss = <<>> THEN <<>> ELSE Head(ss) \o Concat(Tail(ss))

\* the strings made of at most n of the pieces
Strings(pieces, n) == {Concat(ss) : ss \in UNION {[1..k -> pieces] : k \in 0..n}}

\* the permalinks extractReleaseID is called on
URLPieces == {PathPrefix, <<"1">>, <<".">>, HtmlSuffix, <<"x">>}

URLStrs == Strings(URLPieces, MaxURLPieces)

\* a number that does not fit an int
TwentyNines == [k \in 1..20 |-> "9"]

\* the relative, mixed and unknown dates parseReleaseDate is called on
DatePieces ==
    {<<"3">> \o HoursAgo, <<"5">> \o MinutesAgo, <<"1">>, HoursAgo, MinutesAgo,
     <<"x">>, TwentyNines}

\* the dates of the shape of the absolute form, well-formed and not
AbsoluteStrs ==
    { y \o <<"nen">> \o mo \o <<"gatsu">> \o d \o <<"nichi">> \o sp
        \o h \o <<"ji">> \o mi \o <<"fun">> \o tr :
        y  \in {<<"2", "0", "2", "4">>, <<"2", "0", "2", "3">>, <<"2", "4">>},
        mo \in {<<"2">>, <<"0", "2">>, <<"1", "2">>, <<"1", "3">>},
        d  \in {<<"3">>, <<"2", "9">>, <<"3", "0">>},
        sp \in {<<>>, <<" ">>, <<" ", " ">>},
        h  \in {<<"9">>, <<"0", "9">>, <<"2", "4">>},
        mi \in {<<"0", "0">>, <<"5">>, <<"5", "9">>},
        tr \in {<<>>, <<"mae">>, <<"x">>} }

DateStrs == Strings(DatePieces, MaxDatePieces) \cup AbsoluteStrs

\* the values of time.Now()
Clocks == {Time(2024, 3, 1, 0, 30), Time(2024, 1, 1, 2, 0), Time(2023, 3, 1, 12, 0)}

\* the values of last_page a search response may carry (an int, so also
\* values below 1)
LastPages == (0 - 1)..MaxPages

\* the release lists the upstream may hold for page p
PageLists(p) ==
    UNION { { s \in [1..n -> [Title : Pages \X (1..MaxListings), ReleaseURL : URLSet]] :
                \A i \in 1..n : s[i].Title = <<p, i>> } : n \in 0..MaxListings }

\* ----------------------------------------------------------------- state
VARIABLES
    keyword,      \* r.URL.Query().Get("keyword")
    limitStr,     \* r.URL.Query().Get("limit"), <<>> when absent
    upstream,     \* the release list the search endpoint holds for each page
    mainPc,       \* position of the handler goroutine
    limit,        \* local limit
    totalPages,   \* local totalPages
    page,         \* loop variable of the fan-out loop
    results,      \* the shared slice
    mu,           \* sync.Mutex: TRUE when locked
    wg,           \* sync.WaitGroup counter
    taskPc,       \* position of the goroutine of each page
    prTimesData,  \* what each goroutine's fetchPRTimesData returned
    idx,          \* each goroutine's position in its range loop
    item,         \* the ResponseItem each goroutine has built
    snap,         \* the slice value each goroutine's append has read
    holders,      \* goroutines between their mu.Lock and their mu.Unlock
    response,     \* what the handler wrote: status and body
    listCalls,    \* number of search requests issued per page
    likeCalls,    \* release ids for which a like_count request was issued
    firstFailed,  \* history: the discovery fetch of page 1 failed
    failedPages,  \* history: pages whose fetch inside a goroutine failed
    likeFailed,   \* history: titles whose like_count lookup failed
    accumulated,  \* history: the slice as it stood when wg.Wait returned, <<>> before
    dateStr,      \* the argument of the call of parseReleaseDate
    now,          \* the value of time.Now() during that call
    publishedDate,\* what parseReleaseDate returned, <<>> before
    taken,        \* the return statement it left by, "none" before
    releaseURL,   \* the argument of the call of extractReleaseID
    releaseID,    \* what extractReleaseID returned, <<>> before
    extracted     \* extractReleaseID has returned

callVars == << dateStr, now, publishedDate, taken, releaseURL, releaseID, extracted >>

vars == << keyword, limitStr, upstream, mainPc, limit, totalPages, page, results,
           mu, wg, taskPc, prTimesData, idx, item, snap, holders, response,
           listCalls, likeCalls, firstFailed, failedPages, likeFailed,
           accumulated, callVars >>

reqVars  == << keyword, limitStr, upstream, callVars >>
taskVars == << taskPc, prTimesData, idx, item, snap, holders >>
logVars  == << listCalls, likeCalls, firstFailed, failedPages, likeFailed, accumulated >>

Nil == [nil |-> TRUE]

NoResponse == [status |-> 0, body |-> <<>>]

StatusOK == 200
StatusBadRequest == 400
StatusInternalServerError == 500

BaseURL == <<"https://prtimes.jp">>

Init ==
    /\ keyword \in Keywords
    /\ limitStr \in LimitStrs
    /\ upstream \in { f \in [Pages -> UNION {PageLists(p) : p \in Pages}] :
                        \A p \in Pages : f[p] \in PageLists(p) }
    /\ mainPc = "validate"
    /\ limit = 0
    /\ totalPages = 0
    /\ page = 1
    /\ results = <<>>
    /\ mu = FALSE
    /\ wg = 0
    /\ taskPc = [p \in Pages |-> "none"]
    /\ prTimesData = [p \in Pages |-> Nil]
    /\ idx = [p \in Pages |-> 0]
    /\ item = [p \in Pages |-> Nil]
    /\ snap = [p \in Pages |-> <<>>]
    /\ holders = {}
    /\ response = NoResponse
    /\ listCalls = [p \in Pages |-> 0]
    /\ likeCalls = {}
    /\ firstFailed = FALSE
    /\ failedPages = {}
    /\ likeFailed = {}
    /\ accumulated = <<>>
    /\ dateStr = <<>>
    /\ now = Time(2024, 3, 1, 0, 30)
    /\ publishedDate = <<>>
    /\ taken = "none"
    /\ releaseURL = <<>>
    /\ releaseID = <<>>
    /\ extracted = FALSE

\* ------------------------------------------------- the handler goroutine
keywordMissing(k) == k = <<>>

\* line 222 with the zero case let through
limitRejectedNegativeOnly(err, n) == err \/ n < 0

\* line 222
limitRejected(err, n) == err \/ n <= 0

\* lines 211-226: the keyword and limit checks
Validate ==
    /\ mainPc = "validate"
    /\ IF keywordMissing(keyword)
       THEN /\ response' = [status |-> StatusBadRequest, body |-> <<>>]
            /\ mainPc' = "done"
            /\ UNCHANGED limit
       ELSE IF limitStr # <<>>
       THEN LET a == Atoi(limitStr)
            IN  IF limitRejected(a.err, a.val)
                THEN /\ response' = [status |-> StatusBadRequest, body |-> <<>>]
                     /\ mainPc' = "done"
                     /\ limit' = a.val
                ELSE /\ limit' = a.val
                     /\ mainPc' = "fetchFirst"
                     /\ UNCHANGED response
       ELSE /\ limit' = 0
            /\ mainPc' = "fetchFirst"
            /\ UNCHANGED response
    /\ UNCHANGED << reqVars, totalPages, page, results, mu, wg, taskVars, logVars >>

\* line 229: the request for page 1 goes out
FirstPageIssue ==
    /\ mainPc = "fetchFirst"
    /\ listCalls' = [listCalls EXCEPT ![1] = @ + 1]
    /\ mainPc' = "fetchingFirst"
    /\ UNCHANGED << reqVars, limit, totalPages, page, results, mu, wg, taskVars,
                    response, likeCalls, firstFailed, failedPages, likeFailed,
                    accumulated >>

\* lines 229-239 with the error logged and the request carried on as if the
\* search had one page
FirstPageReturnSwallowsError ==
    /\ mainPc = "fetchingFirst"
    /\ \/ /\ firstFailed' = TRUE
          /\ totalPages' = 1
          /\ page' = 1
          /\ mainPc' = "spawn"
       \/ \E lastPage \in LastPages :
            /\ totalPages' = lastPage
            /\ page' = 1
            /\ mainPc' = "spawn"
            /\ UNCHANGED firstFailed
    /\ UNCHANGED << reqVars, limit, results, mu, wg, taskVars, response, listCalls,
                    likeCalls, failedPages, likeFailed, accumulated >>

\* lines 229-239: page 1 comes back, with an error or with some last_page
FirstPageReturn ==
    /\ mainPc = "fetchingFirst"
    /\ \/ /\ response' = [status |-> StatusInternalServerError, body |-> <<>>]
          /\ mainPc' = "done"
          /\ firstFailed' = TRUE
          /\ UNCHANGED << totalPages, page >>
       \/ \E lastPage \in LastPages :
            /\ totalPages' = lastPage
            /\ page' = 1
            /\ mainPc' = "spawn"
            /\ UNCHANGED << response, firstFailed >>
    /\ UNCHANGED << reqVars, limit, results, mu, wg, taskVars, listCalls,
                    likeCalls, failedPages, likeFailed, accumulated >>

\* line 242 with the last page left out
morePagesExclusive(pg, total) == pg < total

\* line 242 as a loop that runs its body at least once
morePagesAtLeastOne(pg, total) == pg <= total \/ pg = 1

\* line 242: the loop condition
morePages(pg, total) == pg <= total

\* lines 242-244: one iteration of the fan-out loop
Spawn ==
    /\ mainPc = "spawn"
    /\ IF morePages(page, totalPages)
       THEN /\ wg' = wg + 1
            /\ taskPc' = [taskPc EXCEPT ![page] = "start"]
            /\ page' = page + 1
            /\ UNCHANGED mainPc
       ELSE /\ mainPc' = "wait"
            /\ UNCHANGED << wg, taskPc, page >>
    /\ UNCHANGED << reqVars, limit, totalPages, results, mu, prTimesData, idx, item,
                    snap, holders, response, logVars >>

\* line 276 without the wait
WaitNoBarrier ==
    /\ mainPc = "wait"
    /\ mainPc' = "sort"
    /\ accumulated' = results
    /\ UNCHANGED << reqVars, limit, totalPages, page, results, mu, wg, taskVars,
                    response, listCalls, likeCalls, firstFailed, failedPages,
                    likeFailed >>

\* line 276: wg.Wait returns once the counter is zero
Wait ==
    /\ mainPc = "wait"
    /\ wg = 0
    /\ mainPc' = "sort"
    /\ accumulated' = results
    /\ UNCHANGED << reqVars, limit, totalPages, page, results, mu, wg, taskVars,
                    response, listCalls, likeCalls, firstFailed, failedPages,
                    likeFailed >>

\* line 280 with the comparison turned round
lessAscending(a, b) == a.LikeCount < b.LikeCount

\* line 280: the comparison handed to sort.Slice
less(a, b) == a.LikeCount > b.LikeCount

\* the permutations of a sequence
Perms(s) ==
    { t \in [1..Len(s) -> {s[i] : i \in 1..Len(s)}] :
        \E f \in [1..Len(s) -> 1..Len(s)] :
            /\ \A i, j \in 1..Len(s) : i # j => f[i] # f[j]
            /\ \A i \in 1..Len(s) : t[i] = s[f[i]] }

\* lines 279-281: sort.Slice is not stable; any ordering of the slice in which
\* no later element is less than an earlier one can come out
Sort ==
    /\ mainPc = "sort"
    /\ results' \in { t \in Perms(results) :
                        \A i, j \in 1..Len(t) : i < j => ~less(t[j], t[i]) }
    /\ mainPc' = "truncate"
    /\ UNCHANGED << reqVars, limit, totalPages, page, mu, wg, taskVars, response,
                    logVars >>

\* lines 284-286 cutting one element too many
truncateShort(rs, n) == IF n > 0 /\ Len(rs) > n THEN SubSeq(rs, 1, n - 1) ELSE rs

\* lines 284-286
truncate(rs, n) == IF n > 0 /\ Len(rs) > n THEN SubSeq(rs, 1, n) ELSE rs

Truncate ==
    /\ mainPc = "truncate"
    /\ results' = truncate(results, limit)
    /\ mainPc' = "respond"
    /\ UNCHANGED << reqVars, limit, totalPages, page, mu, wg, taskVars, response,
                    logVars >>

\* lines 289-290: the slice is encoded as the body
Respond ==
    /\ mainPc = "respond"
    /\ response' = [status |-> StatusOK, body |-> results]
    /\ mainPc' = "done"
    /\ UNCHANGED << reqVars, limit, totalPages, page, results, mu, wg, taskVars,
                    logVars >>

\* -------------------------------------------------- the page goroutines
\* line 246: the request for the page goes out
TaskFetchIssue(p) ==
    /\ taskPc[p] = "start"
    /\ listCalls' = [listCalls EXCEPT ![p] = @ + 1]
    /\ taskPc' = [taskPc EXCEPT ![p] = "fetching"]
    /\ UNCHANGED << reqVars, mainPc, limit, totalPages, page, results, mu, wg,
                    prTimesData, idx, item, snap, holders, response, likeCalls,
                    firstFailed, failedPages, likeFailed, accumulated >>

\* lines 245-250 with the error path throwing away what was collected
TaskFetchFailResets(p) ==
    /\ taskPc[p] = "fetching"
    /\ failedPages' = failedPages \cup {p}
    /\ results' = <<>>
    /\ taskPc' = [taskPc EXCEPT ![p] = "done"]
    /\ wg' = wg - 1
    /\ UNCHANGED << reqVars, mainPc, limit, totalPages, page, mu, prTimesData, idx,
                    item, snap, holders, response, listCalls, likeCalls,
                    firstFailed, likeFailed, accumulated >>

\* lines 245-250 with wg.Done called at the end of the function body instead
\* of deferred: the early return skips it
TaskFetchFailNoDone(p) ==
    /\ taskPc[p] = "fetching"
    /\ failedPages' = failedPages \cup {p}
    /\ taskPc' = [taskPc EXCEPT ![p] = "done"]
    /\ UNCHANGED << reqVars, mainPc, limit, totalPages, page, results, mu, wg,
                    prTimesData, idx, item, snap, holders, response, listCalls,
                    likeCalls, firstFailed, likeFailed, accumulated >>

\* lines 245-250: the page comes back; on an error the goroutine returns and
\* the deferred wg.Done runs
TaskFetchFail(p) ==
    /\ taskPc[p] = "fetching"
    /\ failedPages' = failedPages \cup {p}
    /\ taskPc' = [taskPc EXCEPT ![p] = "done"]
    /\ wg' = wg - 1
    /\ UNCHANGED << reqVars, mainPc, limit, totalPages, page, results, mu,
                    prTimesData, idx, item, snap, holders, response, listCalls,
                    likeCalls, firstFailed, likeFailed, accumulated >>

\* lines 246, 252 with the page count taken again from every response
TaskFetchOkRequeries(p) ==
    /\ taskPc[p] = "fetching"
    /\ \E lastPage \in LastPages :
         /\ prTimesData' = [prTimesData EXCEPT
                              ![p] = [LastPage |-> lastPage, ReleaseList |-> upstream[p]]]
         /\ totalPages' = lastPage
    /\ idx' = [idx EXCEPT ![p] = 1]
    /\ taskPc' = [taskPc EXCEPT ![p] = "range"]
    /\ UNCHANGED << reqVars, mainPc, limit, page, results, mu, wg,
                    item, snap, holders, response, logVars >>

\* lines 246, 252: the page comes back decoded; the range loop starts
TaskFetchOk(p) ==
    /\ taskPc[p] = "fetching"
    /\ \E lastPage \in LastPages :
         prTimesData' = [prTimesData EXCEPT
                           ![p] = [LastPage |-> lastPage, ReleaseList |-> upstream[p]]]
    /\ idx' = [idx EXCEPT ![p] = 1]
    /\ taskPc' = [taskPc EXCEPT ![p] = "range"]
    /\ UNCHANGED << reqVars, mainPc, limit, totalPages, page, results, mu, wg,
                    item, snap, holders, response, logVars >>

\* line 252 when the list is exhausted: the goroutine ends, wg.Done runs
TaskExit(p) ==
    /\ taskPc[p] = "range"
    /\ idx[p] > Len(prTimesData[p].ReleaseList)
    /\ taskPc' = [taskPc EXCEPT ![p] = "done"]
    /\ wg' = wg - 1
    /\ UNCHANGED << reqVars, mainPc, limit, totalPages, page, results, mu,
                    prTimesData, idx, item, snap, holders, response, logVars >>

\* lines 252-254: the next release; its id is extracted and the like_count
\* request goes out
TaskLikeIssue(p) ==
    /\ taskPc[p] = "range"
    /\ idx[p] <= Len(prTimesData[p].ReleaseList)
    /\ LET release == prTimesData[p].ReleaseList[idx[p]]
       IN  likeCalls' = likeCalls \cup {extractReleaseID(release.ReleaseURL)}
    /\ taskPc' = [taskPc EXCEPT ![p] = "liking"]
    /\ UNCHANGED << reqVars, mainPc, limit, totalPages, page, results, mu, wg,
                    prTimesData, idx, item, snap, holders, response, listCalls,
                    firstFailed, failedPages, likeFailed, accumulated >>

\* lines 255-258
likeOrZero(err, n) == IF err THEN 0 ELSE n

\* lines 254-267: the like count comes back, with an error or a number, and
\* the item is built
TaskLikeReturn(p) ==
    /\ taskPc[p] = "liking"
    /\ LET release == prTimesData[p].ReleaseList[idx[p]]
       IN  \E err \in BOOLEAN, n \in 0..MaxLike :
             /\ err => n = 0
             /\ item' = [item EXCEPT
                           ![p] = [Title     |-> release.Title,
                                   PostURL   |-> BaseURL \o release.ReleaseURL,
                                   LikeCount |-> likeOrZero(err, n)]]
             /\ likeFailed' = IF err THEN likeFailed \cup {release.Title}
                              ELSE likeFailed
    /\ taskPc' = [taskPc EXCEPT ![p] = "built"]
    /\ UNCHANGED << reqVars, mainPc, limit, totalPages, page, results, mu, wg,
                    prTimesData, idx, snap, holders, response, listCalls,
                    likeCalls, firstFailed, failedPages, accumulated >>

\* line 269 with a lock that never blocks
muNeverBusy(m) == TRUE

\* line 269: Lock returns only when the mutex is free
muAvailable(m) == m = FALSE

TaskLock(p) ==
    /\ taskPc[p] = "built"
    /\ muAvailable(mu)
    /\ mu' = TRUE
    /\ holders' = holders \cup {p}
    /\ taskPc' = [taskPc EXCEPT ![p] = "locked"]
    /\ UNCHANGED << reqVars, mainPc, limit, totalPages, page, results, wg,
                    prTimesData, idx, item, snap, response, logVars >>

\* line 270, first half: append reads the slice
TaskAppendRead(p) ==
    /\ taskPc[p] = "locked"
    /\ snap' = [snap EXCEPT ![p] = results]
    /\ taskPc' = [taskPc EXCEPT ![p] = "appending"]
    /\ UNCHANGED << reqVars, mainPc, limit, totalPages, page, results, mu, wg,
                    prTimesData, idx, item, holders, response, logVars >>

\* line 270, second half: the grown slice is stored back
TaskAppendWrite(p) ==
    /\ taskPc[p] = "appending"
    /\ results' = Append(snap[p], item[p])
    /\ snap' = [snap EXCEPT ![p] = <<>>]
    /\ taskPc' = [taskPc EXCEPT ![p] = "appended"]
    /\ UNCHANGED << reqVars, mainPc, limit, totalPages, page, mu, wg, prTimesData,
                    idx, item, holders, response, logVars >>

\* lines 271-272: unlock, and on to the next release
TaskUnlock(p) ==
    /\ taskPc[p] = "appended"
    /\ mu' = FALSE
    /\ holders' = holders \ {p}
    /\ idx' = [idx EXCEPT ![p] = @ + 1]
    /\ item' = [item EXCEPT ![p] = Nil]
    /\ taskPc' = [taskPc EXCEPT ![p] = "range"]
    /\ UNCHANGED << reqVars, mainPc, limit, totalPages, page, results, wg,
                    prTimesData, snap, response, logVars >>

Task(p) ==
    \/ TaskFetchIssue(p)
    \/ TaskFetchFail(p)
    \/ TaskFetchOk(p)
    \/ TaskExit(p)
    \/ TaskLikeIssue(p)
    \/ TaskLikeReturn(p)
    \/ TaskLock(p)
    \/ TaskAppendRead(p)
    \/ TaskAppendWrite(p)
    \/ TaskUnlock(p)

Next ==
    \/ Validate
    \/ FirstPageIssue
    \/ FirstPageReturn
    \/ Spawn
    \/ Wait
    \/ Sort
    \/ Truncate
    \/ Respond
    \/ \E p \in Pages : Task(p)

Spec == Init /\ [][Next]_vars

\* the steps of the handler goroutine
Main ==
    \/ Validate
    \/ FirstPageIssue
    \/ FirstPageReturn
    \/ Spawn
    \/ Wait
    \/ Sort
    \/ Truncate
    \/ Respond

\* The Go scheduler lets every runnable goroutine run, and every upstream
\* request is taken to come back (with a response or with an error).
FairSpec == Spec /\ WF_vars(Main) /\ \A p \in Pages : WF_vars(Task(p))

\* ------------------------------------------- the two functions on their own
handlerVars == << keyword, limitStr, upstream, mainPc, limit, totalPages, page,
                  results, mu, wg, taskPc, prTimesData, idx, item, snap, holders,
                  response, listCalls, likeCalls, firstFailed, failedPages,
                  likeFailed, accumulated >>

\* no request has come in
NoRequest ==
    /\ keyword = <<>>
    /\ limitStr = <<>>
    /\ upstream = [p \in Pages |-> <<>>]
    /\ mainPc = "validate"
    /\ limit = 0
    /\ totalPages = 0
    /\ page = 1
    /\ results = <<>>
    /\ mu = FALSE
    /\ wg = 0
    /\ taskPc = [p \in Pages |-> "none"]
    /\ prTimesData = [p \in Pages |-> Nil]
    /\ idx = [p \in Pages |-> 0]
    /\ item = [p \in Pages |-> Nil]
    /\ snap = [p \in Pages |-> <<>>]
    /\ holders = {}
    /\ response = NoResponse
    /\ listCalls = [p \in Pages |-> 0]
    /\ likeCalls = {}
    /\ firstFailed = FALSE
    /\ failedPages = {}
    /\ likeFailed = {}
    /\ accumulated = <<>>

InitDate ==
    /\ NoRequest
    /\ dateStr \in DateStrs
    /\ now \in Clocks
    /\ publishedDate = <<>>
    /\ taken = "none"
    /\ releaseURL = <<>>
    /\ releaseID = <<>>
    /\ extracted = FALSE

\* lines 297-328: one call of parseReleaseDate
CallParseReleaseDate ==
    /\ taken = "none"
    /\ publishedDate' = parseReleaseDate(dateStr, now)
    /\ taken' = returnTaken(dateStr)
    /\ UNCHANGED << handlerVars, dateStr, now, releaseURL, releaseID, extracted >>

NextDate == CallParseReleaseDate

SpecDate == InitDate /\ [][NextDate]_vars

InitExtract ==
    /\ NoRequest
    /\ dateStr = <<>>
    /\ now = Time(2024, 3, 1, 0, 30)
    /\ publishedDate = <<>>
    /\ taken = "none"
    /\ releaseURL \in URLStrs
    /\ releaseID = <<>>
    /\ extracted = FALSE

\* lines 201-208: one call of extractReleaseID
CallExtractReleaseID ==
    /\ ~extracted
    /\ releaseID' = extractReleaseID(releaseURL)
    /\ extracted' = TRUE
    /\ UNCHANGED << handlerVars, dateStr, now, publishedDate, taken, releaseURL >>

NextExtract == CallExtractReleaseID

SpecExtract == InitExtract /\ [][NextExtract]_vars

\* ---------------------------------------------------------------- claims
Min(a, b) == IF a < b THEN a ELSE b

RECURSIVE SumListings(_)
SumListings(n) == IF n <= 0 THEN 0 ELSE Len(upstream[n]) + SumListings(n - 1)

Responded(status) == mainPc = "done" /\ response.status = status

BarrierPassed == mainPc \in {"sort", "truncate", "respond"} \/ Responded(StatusOK)

InFlight == {"fetching", "liking"}

NoUpstreamCall == (\A p \in Pages : listCalls[p] = 0) /\ likeCalls = {}

\* the positions of the accumulated slice that hold listing i of page p
Positions(p, i) == {k \in 1..Len(accumulated) : accumulated[k].Title = <<p, i>>}

\* C1: once the handler is past wg.Wait (sorting, truncating, responding or
\* done with a result) every spawned goroutine has finished, and from then on
\* no goroutine moves and the slice never grows.
C1_NoAppendAfterBarrier ==
    /\ [](BarrierPassed => /\ \A p \in Pages : taskPc[p] \in {"none", "done"}
                           /\ wg = 0)
    /\ [][BarrierPassed => /\ taskPc' = taskPc
                           /\ Len(results') <= Len(results)]_vars

C1_Witness ==
    /\ Responded(StatusOK)
    /\ \E k, l \in 1..Len(accumulated) :
         accumulated[k].Title[1] = 1 /\ accumulated[l].Title[1] = 2

\* C2: the slice never holds more items than pages 1..totalPages list, and
\* when wg.Wait returns without any page fetch or like_count lookup having
\* failed it holds exactly that many.
C2_AccumulatedCount ==
    /\ Len(results) <= SumListings(totalPages)
    /\ BarrierPassed =>
         /\ Len(accumulated) <= SumListings(totalPages)
         /\ (failedPages = {} /\ likeFailed = {}) =>
               Len(accumulated) = SumListings(totalPages)

C2_Witness ==
    /\ mainPc = "sort"
    /\ failedPages = {} /\ likeFailed = {}
    /\ totalPages = 2
    /\ Len(accumulated) = 2

\* C3: in a 200 response every element's like count is at least the like
\* count of the element after it.
C3_SortedDescending ==
    Responded(StatusOK) =>
        \A i \in 1..(Len(response.body) - 1) :
            response.body[i].LikeCount >= response.body[i + 1].LikeCount

\* the goroutines appended in ascending order and both items are returned
C3_Witness ==
    /\ Responded(StatusOK)
    /\ Len(accumulated) >= 2
    /\ accumulated[1].LikeCount < accumulated[2].LikeCount
    /\ Len(response.body) >= 2

\* C4 as the spec states it: with R items accumulated, a limit L > 0 returns
\* min(L, R) of them and a limit that is absent or 0 returns all R.
C4_Original ==
    (mainPc = "done" /\ ~keywordMissing(keyword) /\ ~firstFailed) =>
        IF limitStr = <<>> \/ (~Atoi(limitStr).err /\ Atoi(limitStr).val = 0)
        THEN response.status = StatusOK /\ Len(response.body) = Len(accumulated)
        ELSE response.status = StatusOK =>
                 Len(response.body) = Min(Atoi(limitStr).val, Len(accumulated))

\* C4 (amended): with R items accumulated, a limit L > 0 returns min(L, R) of
\* them and an absent limit returns all R; a limit of 0 is rejected with 400.
C4_LimitTruncation ==
    /\ Responded(StatusOK) =>
         Len(response.body) =
            IF limitStr = <<>> THEN Len(accumulated)
            ELSE Min(Atoi(limitStr).val, Len(accumulated))
    /\ (mainPc = "done" /\ ~keywordMissing(keyword) /\ limitStr # <<>>
          /\ ~Atoi(limitStr).err /\ Atoi(limitStr).val = 0) =>
         response.status = StatusBadRequest

C4_Witness ==
    /\ Responded(StatusOK)
    /\ limitStr = <<"1">>
    /\ Len(accumulated) = 2
    /\ Len(response.body) = 1

\* C5: when the discovery fetch of page 1 fails the handler is done with a
\* 500, no goroutine was spawned, and the only upstream request ever issued
\* is that one search request for page 1.
C5_FirstPageFailureIsFatal ==
    firstFailed =>
        /\ Responded(StatusInternalServerError)
        /\ \A p \in Pages : taskPc[p] = "none"
        /\ wg = 0
        /\ listCalls[1] = 1
        /\ \A p \in Pages \ {1} : listCalls[p] = 0
        /\ likeCalls = {}

C5_Witness == firstFailed /\ mainPc = "done"

\* C6: when the fetch of a page other than 1 fails, the request still ends
\* with a 200, no accumulated item comes from a failed page, and every
\* listing of every page fetched successfully is among the accumulated items.
C6_PageFailureAbsorbed ==
    (failedPages \ {1} # {}) =>
        /\ mainPc = "done" => response.status = StatusOK
        /\ BarrierPassed =>
             /\ \A k \in 1..Len(accumulated) :
                  accumulated[k].Title[1] \notin failedPages
             /\ \A p \in (1..totalPages) \ failedPages :
                  \A i \in 1..Len(upstream[p]) : Positions(p, i) # {}

C6_Witness ==
    /\ Responded(StatusOK)
    /\ failedPages = {2}
    /\ Len(upstream[2]) > 0
    /\ Len(accumulated) > 0

\* C7: a request with an empty keyword, or with a limit that is not a
\* number or is below 1, never gets past validation: no upstream request is
\* ever issued and it ends with a 400.
C7_InvalidInput ==
    LET badLimit == limitStr # <<>> /\ (Atoi(limitStr).err \/ Atoi(limitStr).val < 1)
    IN  (keyword = <<>> \/ badLimit) =>
            /\ NoUpstreamCall
            /\ mainPc \in {"validate", "done"}
            /\ mainPc = "done" => response.status = StatusBadRequest

C7_Witness ==
    /\ Responded(StatusBadRequest)
    /\ keyword # <<>>
    /\ limitStr = <<"0">>

\* C8 as the spec states it: every listing of a page fetched successfully is
\* in the accumulated slice exactly once, and with like count 0 when its
\* lookup failed or its release id is empty.
C8_Original ==
    BarrierPassed =>
        \A p \in (1..totalPages) \ failedPages :
            \A i \in 1..Len(upstream[p]) :
                /\ Cardinality(Positions(p, i)) = 1
                /\ (\/ <<p, i>> \in likeFailed
                    \/ extractReleaseID(upstream[p][i].ReleaseURL) = <<>>) =>
                      \A k \in Positions(p, i) : accumulated[k].LikeCount = 0

\* C9 as the spec states it: no like_count request is ever issued for the
\* empty release id.
C9_Original == <<>> \notin likeCalls

\* C10: at most one goroutine is between Lock and Unlock, a goroutine in
\* there has no upstream request in flight, and until wg.Wait has returned
\* the slice changes only by a lock holder appending its item.
C10_LockDiscipline ==
    /\ [](/\ Cardinality(holders) <= 1
          /\ holders # {} => mu
          /\ \A p \in holders : taskPc[p] \notin InFlight)
    /\ [][(results' # results /\ ~BarrierPassed) =>
            \E p \in holders : results' = Append(results, item[p])]_vars

\* one goroutine is appending under the lock while another waits for it
C10_Witness ==
    \E p, q \in Pages :
        /\ p # q
        /\ p \in holders /\ taskPc[p] = "appending"
        /\ taskPc[q] = "built"

\* the handler has read last_page from the discovery response
Discovered == mainPc \notin {"validate", "fetchFirst", "fetchingFirst"} /\ ~firstFailed
                 /\ response.status # StatusBadRequest

\* the fan-out loop is over
FannedOut == mainPc = "wait" \/ BarrierPassed

\* the number of search requests the code issues for page p of a request
\* whose discovery reported total pages
Fetches(p, total) == (IF p = 1 THEN 1 ELSE 0) + (IF p <= total THEN 1 ELSE 0)

\* number of positions of the sequence s that hold x
Count(s, x) == Cardinality({k \in 1..Len(s) : s[k] = x})

\* C11: totalPages is set once, from the discovery response, while no
\* goroutine exists, and never changes afterwards whatever last_page a later
\* response carries; the goroutines that exist are always for pages of
\* 1..totalPages, after the loop they are exactly those pages, and a page
\* that has a goroutine is never spawned again.
C11_FanOutFixed ==
    /\ [][Discovered => totalPages' = totalPages]_vars
    /\ [][totalPages' # totalPages => \A p \in Pages : taskPc[p] = "none"]_vars
    /\ [](\A p \in Pages : taskPc[p] # "none" => Discovered /\ p <= totalPages)
    /\ [](FannedOut => \A p \in Pages : taskPc[p] # "none" <=> p <= totalPages)
    /\ [][\A p \in Pages : taskPc[p] \notin {"none", "start"} => taskPc'[p] # "start"]_vars

\* the page goroutines saw last_page values other than the one the fan-out
\* was built from, and the request ended with just the page it started with
C11_Witness ==
    /\ Responded(StatusOK)
    /\ totalPages = 1
    /\ prTimesData[1] # Nil
    /\ prTimesData[1].LastPage = 2
    /\ taskPc[2] = "none"

\* s[i..j] is a run of one or more digits
IsNumeric(s, i, j) == i <= j /\ j <= Len(s) /\ \A k \in i..j : s[k] \in Digits

\* s holds a number followed by the marker
HasRelative(s, marker) ==
    \E j \in 1..Len(s) : s[j] \in Digits /\ HasAt(s, j + 1, marker)

\* the branch the priority order of the spec gives the string s
Classified(s) ==
    IF HasRelative(s, HoursAgo) THEN "hours"
    ELSE IF HasRelative(s, MinutesAgo) THEN "minutes"
    ELSE IF ~Parse(s).err THEN "absolute"
    ELSE "unrecognized"

\* C12 as the spec states it: parseReleaseDate leaves by the branch of the
\* first form, in the order hours, minutes, absolute, unrecognized, that the
\* string matches; a string with a number before the hours marker gives now
\* less that many hours whatever else it matches, one with a number before
\* the minutes marker only gives now less that many minutes.
C12_Original ==
    taken # "none" =>
        /\ taken = Classified(dateStr)
        /\ taken = "hours" =>
             publishedDate =
                Format(Add(now, 0 - Atoi(FindRelFrom(dateStr, 1, HoursAgo)[2]).val * Hour))
        /\ taken = "minutes" =>
             publishedDate =
                Format(Add(now, 0 - Atoi(FindRelFrom(dateStr, 1, MinutesAgo)[2]).val * Minute))

\* the value of the two digits s[i], s[i + 1]
TwoDigits(s, i) == 10 * DigitVal(s[i]) + DigitVal(s[i + 1])

\* s has the shape YYYY<nen>MM<gatsu>DD<nichi> HH:MM, zero-padded, with a
\* month, day, hour and minute that exist
Canonical(s) ==
    /\ Len(s) = 17
    /\ \A k \in {1, 2, 3, 4, 6, 7, 9, 10, 13, 14, 16, 17} : s[k] \in Digits
    /\ s[5] = "nen" /\ s[8] = "gatsu" /\ s[11] = "nichi" /\ s[12] = " " /\ s[15] = ":"
    /\ TwoDigits(s, 6) \in 1..12
    /\ TwoDigits(s, 9) \in 1..31
    /\ TwoDigits(s, 13) \in 0..23
    /\ TwoDigits(s, 16) \in 0..59

\* the canonical string of the time t, digit by digit
CanonicalOf(t) ==
    << DigitChar((t.year \div 1000) % 10), DigitChar((t.year \div 100) % 10),
       DigitChar((t.year \div 10) % 10), DigitChar(t.year % 10), "nen",
       DigitChar(t.month \div 10), DigitChar(t.month % 10), "gatsu",
       DigitChar(t.day \div 10), DigitChar(t.day % 10), "nichi", " ",
       DigitChar(t.hour \div 10), DigitChar(t.hour % 10), ":",
       DigitChar(t.minute \div 10), DigitChar(t.minute % 10) >>

\* C13: whatever the string, parseReleaseDate returns a string of the
\* canonical shape; for a string that has no number before the hours marker,
\* none before the minutes marker and is not of the absolute form it returns
\* the current time in that shape.
C13_Total ==
    taken # "none" =>
        /\ Canonical(publishedDate)
        /\ (/\ ~HasRelative(dateStr, HoursAgo)
            /\ ~HasRelative(dateStr, MinutesAgo)
            /\ Parse(dateStr).err) =>
               /\ taken = "unrecognized"
               /\ publishedDate = CanonicalOf(now)

\* an unknown string came back as the clock's time, padded
C13_Witness ==
    /\ taken = "unrecognized"
    /\ dateStr = <<"x">>
    /\ now = Time(2024, 3, 1, 0, 30)
    /\ publishedDate = <<"2", "0", "2", "4", "nen", "0", "3", "gatsu", "0", "1", "nichi",
                         " ", "0", "0", ":", "3", "0">>

\* the places <<i, b, d>> of s at which the pattern occurs: the path prefix
\* from i, a number up to b, a dot, a number up to d, then ".html"
Occurrences(s) ==
    UNION { UNION { { <<i, b, d>> :
                        d \in { d \in (b + 2)..Len(s) :
                                  /\ IsNumeric(s, b + 2, d)
                                  /\ HasAt(s, d + 1, HtmlSuffix) } } :
                    b \in { b \in (i + Len(PathPrefix))..Len(s) :
                              /\ IsNumeric(s, i + Len(PathPrefix), b)
                              /\ HasAt(s, b + 1, <<".">>) } } :
            i \in { i \in 1..Len(s) : HasAt(s, i, PathPrefix) } }

\* the two numbers of the occurrence o of s, joined by a dot
Components(s, o) ==
    SubSeq(s, o[1] + Len(PathPrefix), o[2]) \o <<".">> \o SubSeq(s, o[2] + 2, o[3])

\* s is a path that ends with the prefix, a number, a dot, a number and ".html"
ExactShape(s) == \E o \in Occurrences(s) : o[3] + Len(HtmlSuffix) = Len(s)

C15_Original == Responded(StatusOK) => ~firstFailed /\ 1 \notin failedPages

\* C15 (amended): a failure of the discovery fetch of page 1 ends the
\* request with the 500; a failure of a fetch inside a goroutine, the
\* second fetch of page 1 included, never does, so a request that ends with
\* a result set has had no failed discovery fetch.
C15_OnlyDiscoveryFailureIsFatal ==
    /\ firstFailed => Responded(StatusInternalServerError)
    /\ Responded(StatusOK) => ~firstFailed
    /\ (failedPages # {} /\ mainPc = "done") => response.status = StatusOK
    /\ response.status = StatusInternalServerError => firstFailed /\ failedPages = {}

C15_Witness == Responded(StatusOK) /\ 1 \in failedPages

C17_NoTimeout ==
    /\ []((\E p \in Pages : taskPc[p] \in InFlight) =>
             /\ mainPc \in {"spawn", "wait"}
             /\ wg >= 1
             /\ response = NoResponse)
    /\ [][\A p \in Pages :
            /\ taskPc[p] = "fetching" => taskPc'[p] \in {"fetching", "range", "done"}
            /\ taskPc[p] = "liking" => taskPc'[p] \in {"liking", "built"}]_vars

\* one request is still out although every other goroutine is done and the
\* handler waits
C17_Witness ==
    /\ mainPc = "wait"
    /\ totalPages = 2
    /\ taskPc[1] = "done"
    /\ taskPc[2] = "liking"
    /\ Len(results) > 0

\* C18: under fair scheduling with every upstream request coming back, the
\* request ends with a response, written once and never changed; the
\* WaitGroup counter never goes below zero and always equals the number of
\* goroutines still running, and when the request has ended the counter is
\* zero and the mutex is free.
C18_Terminates ==
    /\ <>(mainPc = "done" /\ response # NoResponse)
    /\ [][response # NoResponse => response' = response]_vars
    /\ [](wg = Cardinality({p \in Pages : taskPc[p] \notin {"none", "done"}}))
    /\ [](mainPc = "done" => wg = 0 /\ ~mu /\ holders = {})

\* a request that ended although one goroutine took the early return and
\* another used the lock
C18_Witness ==
    /\ Responded(StatusOK)
    /\ failedPages # {}
    /\ Len(accumulated) > 0

\* C19: the accumulated slice holds every listing of every page fetched
\* successfully exactly once; the returned body never holds an item more
\* often than the accumulated slice does, it is a permutation of it when the
\* limit is absent, and every returned item has a like count at least that
\* of every item left out.
C19_Finalization ==
    BarrierPassed =>
        /\ \A p \in Pages : \A i \in 1..Len(upstream[p]) :
             Cardinality(Positions(p, i)) =
                IF p <= totalPages /\ p \notin failedPages THEN 1 ELSE 0
        /\ Responded(StatusOK) =>
             LET body == response.body
                 all  == {accumulated[k] : k \in 1..Len(accumulated)}
                 kept == {body[k] : k \in 1..Len(body)}
             IN  /\ \A x \in kept : Count(body, x) <= Count(accumulated, x)
                 /\ limitStr = <<>> =>
                      /\ Len(body) = Len(accumulated)
                      /\ \A x \in all : Count(body, x) = Count(accumulated, x)
                 /\ \A x \in kept : \A y \in all :
                      Count(body, y) < Count(accumulated, y) =>
                          x.LikeCount >= y.LikeCount

\* a limit of 1 kept the more liked of two items that were appended in
\* ascending order
C19_Witness ==
    /\ Responded(StatusOK)
    /\ limitStr = <<"1">>
    /\ Len(accumulated) = 2
    /\ accumulated[1].LikeCount < accumulated[2].LikeCount
    /\ Len(response.body) = 1

\* C20: when the discovery response reports last_page below 1 no goroutine
\* is ever spawned, the discovery request stays the only upstream request,
\* and the request ends with a 200 and no items, whatever page 1 lists.
C20_NoPages ==
    (Discovered /\ totalPages < 1) =>
        /\ \A p \in Pages : taskPc[p] = "none"
        /\ wg = 0
        /\ listCalls[1] = 1
        /\ \A p \in Pages \ {1} : listCalls[p] = 0
        /\ likeCalls = {}
        /\ results = <<>>
        /\ mainPc = "done" => response = [status |-> StatusOK, body |-> <<>>]

C20_Witness ==
    /\ Responded(StatusOK)
    /\ totalPages < 1
    /\ Len(upstream[1]) > 0

====
